---- MODULE Spec2Model ----
(***************************************************************************)
(* DrawEasy: the tutorial state machine of the App component               *)
(* (src/unnamed/part_009) and the step validation loop                     *)
(* generateValidatedStep (src/services/geminiService.ts).                  *)
(*                                                                         *)
(* Every asynchronous invocation (handleImageUpload, processStep called    *)
(* from accept / retry, or generateValidatedStep called directly) is an    *)
(* entry of `ops`, suspended at the await named by its pc.  One action is  *)
(* one synchronous run of JavaScript: a user event handler up to its first *)
(* await, or the continuation that runs when an awaited call settles.      *)
(***************************************************************************)
EXTENDS Integers, Sequences, FiniteSets, TLC

VARIABLES
    appState, error, acceptedSteps, proposedStep, currentStepNumber,
    originalImage, currentCanvas, proposedStepInstructions,
    nextStepInstructions, validationAttempts, validationScore,
    abortController,
    ops,        \* the invocations in flight, by slot
    resize,     \* the image element and the canvas of resizeImage
    last,       \* the handler or continuation that ran last (history)
    budget      \* what the environment may still do (bounds of the model)

appVars == <<appState, error, acceptedSteps, proposedStep, currentStepNumber,
             originalImage, currentCanvas, proposedStepInstructions,
             nextStepInstructions, validationAttempts, validationScore,
             abortController>>

vars == <<appState, error, acceptedSteps, proposedStep, currentStepNumber,
          originalImage, currentCanvas, proposedStepInstructions,
          nextStepInstructions, validationAttempts, validationScore,
          abortController, ops, resize, last, budget>>

----------------------------------------------------------------------------
(* Bounds of the model *)

\* In one behaviour of the application the environment departs at most
\* MaxDeviations times from the plain run (upload, approve, accept, ...): a
\* departure is a cancel click, a retry click, a validation that rejects, a
\* validation that does not follow its prompt, a call that fails, or a click
\* that starts an operation while another one is still in flight.
MaxDeviations == 3
\* Departures (unprompted validations, failing calls) in a direct invocation
MaxUnprompted == 1
MaxR == 3             \* largest maxRetries of a direct invocation
MaxDim == 4097        \* largest width or height of an uploaded image
\* Rejections, unprompted validations and retry clicks in one behaviour in which
\* every call returns and the user neither cancels nor resets
MaxRejections == 4

\* Image dimensions: the smallest ones and those around the multiples of 512
Dims == {d \in 1..MaxDim : d <= 3 \/ d \in 1022..1026 \/ d % 512 \in {0, 1, 511}}

Files == {1, 2}
Scores == {40, 60, 90}
Corrections == {<<"fix A">>, <<"fix B">>}
UserFeedbacks == {<<>>, <<" ">>, <<"thicker", " ", "lines">>}
\* Regions of the area selector, in hundredths of a percent
Areas == {[x |-> 1000, y |-> 2000, width |-> 3000, height |-> 1500],
          [x |-> 1234, y |-> 5, width |-> 4995, height |-> 10000]}
ErrorMessages == {<<"network", " ", "down">>, <<"request", " ", "cancelled">>}

----------------------------------------------------------------------------
(* Program constants and values *)

totalSteps == 10
ApprovalScore == 70
AppMaxRetries == 3
ResizeMax == 1024

IDLE == "IDLE"
LOADING == "LOADING"
AWAITING_USER_INPUT == "AWAITING_USER_INPUT"
RESULTS == "RESULTS"
ERROR == "ERROR"
AppStateEnum == {IDLE, LOADING, AWAITING_USER_INPUT, RESULTS, ERROR}

\* null / undefined, and a present value
None == <<>>
Some(x) == <<x>>
Val(opt) == opt[1]

\* Strings are sequences of words; these are the literals of the source.
CancelledMessage == <<"Generation", " ", "cancelled", " ", "by", " ", "user">>

\* String.prototype.includes for a single word
Includes(str, word) == \E i \in 1..Len(str) : str[i] = word

IsSpace(w) == w = " "

RECURSIVE TrimStart(_)
TrimStart(s) ==
    IF s = <<>> THEN <<>>
    ELSE IF IsSpace(Head(s)) THEN TrimStart(Tail(s)) ELSE s

RECURSIVE TrimEnd(_)
TrimEnd(s) ==
    IF s = <<>> THEN <<>>
    ELSE IF IsSpace(s[Len(s)]) THEN TrimEnd(SubSeq(s, 1, Len(s) - 1)) ELSE s

\* String.prototype.trim
Trim(s) == TrimEnd(TrimStart(s))

ImageObject(b, m) == [base64 |-> b, mimeType |-> m]

\* `data:${mimeType};base64,${base64}`
DataUrl(img) == <<"data:", img.mimeType, ";base64,", img.base64>>

\* imageUrl.split(';base64,')[1] and imageUrl.substring(5, imageUrl.indexOf(';'))
CanvasFromUrl(url) == ImageObject(url[4], url[2])

\* What the normalizer produces for an uploaded file
ResizedImage(f) == ImageObject(<<"ref", f>>, "image/png")

\* What the remote illustrator returns for the n-th render of an invocation
RenderedImage(oImage, instructions, n) ==
    ImageObject(<<"img", oImage.base64[2], instructions.stepNumber, n>>, "image/png")

\* A direct invocation is answered with a different image at every render;
\* the application's illustrator draws the same image for the same step.
Variant(r) == IF r.kind = "direct" THEN r.renders ELSE 0

\* Instructions as the remote expert numbers them (step n of totalSteps)
ExpertInstruction(n) ==
    [stepNumber |-> n, totalSteps |-> totalSteps, targetCompleteness |-> n * 10,
     whatToDraw |-> <<"what", n>>, drawingInstructions |-> <<<<"HOW", <<n>>>>>>,
     avoidance |-> <<"avoid", n>>]

\* A drawingInstructions text is a sequence of paragraphs <<heading, words>>.
UserFeedbackText(fb) == <<"USER FEEDBACK", fb>>
ExpertCorrectionText(fb) == <<"EXPERT CORRECTION", fb>>

\* `${undefined}` prints "undefined"
TemplateText(opt) == IF opt = None THEN <<"undefined">> ELSE Val(opt)

----------------------------------------------------------------------------
(* Invocations in flight *)

\* An operation overlaps another only after a cancel and an overlapping click.
Slots == 1..(1 + MaxDeviations \div 2)

FreeSlot ==
    [kind |-> "none", pc |-> "free", aborted |-> FALSE, oImage |-> None,
     canvas |-> None, currentInstructions |-> None, userFeedback |-> None,
     maxRetries |-> 0, instructions |-> None, attempt |-> 0,
     generatedImage |-> None, renders |-> 0, validates |-> 0,
     log |-> <<>>, result |-> None, thrown |-> None]

IsFree(o) == ops[o].pc = "free"

\* No image is being resized
NoResize == [pc |-> "none", naturalWidth |-> 0, naturalHeight |-> 0,
             width |-> 0, height |-> 0]

\* The run of JavaScript that is taking place
Event(name) == last' = name /\ UNCHANGED resize

\* What starting an operation costs the environment
LaunchCost == IF \E o \in Slots : ~IsFree(o) THEN 1 ELSE 0
NewSlot == CHOOSE o \in Slots : IsFree(o) /\ \A p \in Slots : IsFree(p) => o <= p

RemotePcs == {"generateFirstStepInstructions", "generatedImage", "validation",
              "finalImage", "finalValidation"}

\* The ghost log is kept for direct invocations only.
Logged(r, entry) == IF r.kind = "direct" THEN Append(r.log, entry) ELSE r.log

\* generateImageFromInstructions is called with the current instructions
IssueRender(r, pc) == [r EXCEPT !.pc = pc, !.renders = @ + 1]

\* lines 381-388 with the feedback trimmed before it is appended
GvsEnterAsTrimmed(r) ==
    LET cur == Val(r.currentInstructions)
        instr == IF r.userFeedback # None /\ Len(Trim(Val(r.userFeedback))) > 0
                 THEN [cur EXCEPT !.drawingInstructions =
                          Append(@, UserFeedbackText(Trim(Val(r.userFeedback))))]
                 ELSE cur
        r1 == [r EXCEPT !.instructions = Some(instr), !.attempt = 1]
    IN  IF 1 <= r.maxRetries THEN IssueRender(r1, "generatedImage")
        ELSE IssueRender(r1, "finalImage")

\* generateValidatedStep, from its entry to its first await
GvsEnter(r) ==
    LET cur == Val(r.currentInstructions)
        instr == IF r.userFeedback # None /\ Len(Trim(Val(r.userFeedback))) > 0
                 THEN [cur EXCEPT !.drawingInstructions =
                          Append(@, UserFeedbackText(Val(r.userFeedback)))]
                 ELSE cur
        r1 == [r EXCEPT !.instructions = Some(instr), !.attempt = 1]
    IN  IF 1 <= r.maxRetries THEN IssueRender(r1, "generatedImage")
        ELSE IssueRender(r1, "finalImage")

\* processStep, from its entry to the first await inside generateValidatedStep
ProcessStepOp(kind, instructions, canvas, oImage, feedback) ==
    GvsEnter([FreeSlot EXCEPT !.kind = kind, !.pc = "entered",
                              !.oImage = Some(oImage), !.canvas = canvas,
                              !.currentInstructions = Some(instructions),
                              !.userFeedback = feedback,
                              !.maxRetries = AppMaxRetries])

\* The prompt of expertValidateImage (lines 295-300) asks the expert to
\* approve from ApprovalScore on, to give feedback when it rejects and to give
\* the next step's instructions when it approves a step that is not the last.
\* Unprompted counts where a validation does otherwise.
Unprompted(r, v) ==
    LET notLast == Val(r.instructions).stepNumber + 1 <= Val(r.instructions).totalSteps
    IN  (IF v.approved # (v.score >= ApprovalScore) THEN 1 ELSE 0)
        + (IF ~v.approved /\ v.feedbackForRegeneration = None THEN 1 ELSE 0)
        + (IF (v.instructionsForNextStep # None) # (v.approved /\ notLast)
           THEN 1 ELSE 0)

\* What a validation costs the environment
Cost(r, v) ==
    (IF v.approved \/ r.kind = "direct" THEN 0 ELSE 1) + Unprompted(r, v)

\* The validations the remote expert may return for the step of r.  The
\* schema of the last step has no instructionsForNextStep (line 343).
Validations(r, v) ==
    LET k == Val(r.instructions).stepNumber IN
    /\ v.approved => v.feedbackForRegeneration = None
    /\ v.instructionsForNextStep \in
           (IF k + 1 > Val(r.instructions).totalSteps THEN {None}
            ELSE {None, Some(ExpertInstruction(k + 1))})
    /\ Cost(r, v) <= budget

\* Every validation record of the model
AllValidations ==
    { [approved |-> a, score |-> s, feedbackForRegeneration |-> fb,
       instructionsForNextStep |-> nx] :
        a \in BOOLEAN, s \in Scores,
        fb \in {None} \cup {Some(c) : c \in Corrections},
        nx \in {None} \cup {Some(ExpertInstruction(k)) : k \in 2..totalSteps} }


----------------------------------------------------------------------------
(* processStep after the await of generateValidatedStep *)

\* lines 130-157 and the finally block: the result is applied
ProcessStepResolvedAsStillLoading(r, result) ==
    /\ validationAttempts' = result.attempts
    /\ validationScore' = Some(result.finalScore)
    /\ proposedStep' = Some([step |-> Val(r.currentInstructions).stepNumber,
                             description |-> Val(r.currentInstructions).whatToDraw,
                             imageUrl |-> DataUrl(result.image)])
    /\ proposedStepInstructions' = r.currentInstructions
    /\ nextStepInstructions' =
           IF result.validation.instructionsForNextStep # None
           THEN result.validation.instructionsForNextStep
           ELSE nextStepInstructions
    /\ appState' = appState
    /\ abortController' = None
    /\ UNCHANGED <<error, acceptedSteps, currentStepNumber, originalImage,
                   currentCanvas>>

ProcessStepResolvedAsCanvasSet(r, result) ==
    /\ validationAttempts' = result.attempts
    /\ validationScore' = Some(result.finalScore)
    /\ proposedStep' = Some([step |-> Val(r.currentInstructions).stepNumber,
                             description |-> Val(r.currentInstructions).whatToDraw,
                             imageUrl |-> DataUrl(result.image)])
    /\ proposedStepInstructions' = r.currentInstructions
    /\ nextStepInstructions' =
           IF result.validation.instructionsForNextStep # None
           THEN result.validation.instructionsForNextStep
           ELSE nextStepInstructions
    /\ appState' = AWAITING_USER_INPUT
    /\ abortController' = None
    /\ currentCanvas' = Some(result.image)
    /\ UNCHANGED <<error, acceptedSteps, currentStepNumber, originalImage>>

\* lines 130-157 with the instructions of the last attempt stored
ProcessStepResolvedAsCorrectedStored(r, result) ==
    /\ validationAttempts' = result.attempts
    /\ validationScore' = Some(result.finalScore)
    /\ proposedStep' = Some([step |-> Val(r.currentInstructions).stepNumber,
                             description |-> Val(r.currentInstructions).whatToDraw,
                             imageUrl |-> DataUrl(result.image)])
    /\ proposedStepInstructions' = r.instructions
    /\ nextStepInstructions' =
           IF result.validation.instructionsForNextStep # None
           THEN result.validation.instructionsForNextStep
           ELSE nextStepInstructions
    /\ appState' = AWAITING_USER_INPUT
    /\ abortController' = None
    /\ UNCHANGED <<error, acceptedSteps, currentStepNumber, originalImage,
                   currentCanvas>>

ProcessStepResolved(r, result) ==
    /\ validationAttempts' = result.attempts
    /\ validationScore' = Some(result.finalScore)
    /\ proposedStep' = Some([step |-> Val(r.currentInstructions).stepNumber,
                             description |-> Val(r.currentInstructions).whatToDraw,
                             imageUrl |-> DataUrl(result.image)])
    /\ proposedStepInstructions' = r.currentInstructions
    /\ nextStepInstructions' =
           IF result.validation.instructionsForNextStep # None
           THEN result.validation.instructionsForNextStep
           ELSE nextStepInstructions
    /\ appState' = AWAITING_USER_INPUT
    /\ abortController' = None
    /\ UNCHANGED <<error, acceptedSteps, currentStepNumber, originalImage,
                   currentCanvas>>

\* lines 159-174: the catch and finally blocks of processStep
ProcessStepRejected(r, message) ==
    /\ IF Includes(message, "cancelled")
       THEN /\ appState' = IDLE
            /\ error' = error
       ELSE /\ error' = Some(<<"Failed to generate step",
                               Val(r.currentInstructions).stepNumber, message>>)
            /\ appState' = ERROR
    /\ abortController' = None
    /\ UNCHANGED <<acceptedSteps, proposedStep, currentStepNumber, originalImage,
                   currentCanvas, proposedStepInstructions, nextStepInstructions,
                   validationAttempts, validationScore>>

\* lines 227-242: the catch and finally blocks of handleImageUpload
UploadRejected(message) ==
    /\ IF Includes(message, "cancelled")
       THEN /\ appState' = IDLE
            /\ error' = error
       ELSE /\ error' = Some(<<"Failed to start tutorial.", message>>)
            /\ appState' = ERROR
    /\ abortController' = None

\* generateValidatedStep returns `result` to its caller
GvsReturn(o, r, result) ==
    IF r.kind = "direct"
    THEN /\ ops' = [ops EXCEPT ![o] = [r EXCEPT !.pc = "returned",
                                               !.result = Some(result)]]
         /\ UNCHANGED appVars
    ELSE /\ ops' = [ops EXCEPT ![o] = FreeSlot]
         /\ ProcessStepResolved(r, result)

\* a remote call of generateValidatedStep throws: the error reaches the caller
GvsThrow(o, r, message) ==
    IF r.kind = "direct"
    THEN /\ ops' = [ops EXCEPT ![o] = [r EXCEPT !.pc = "threw",
                                               !.thrown = Some(message)]]
         /\ UNCHANGED appVars
    ELSE /\ ops' = [ops EXCEPT ![o] = FreeSlot]
         /\ ProcessStepRejected(r, message)

----------------------------------------------------------------------------
(* generateValidatedStep: the continuations of its awaits *)

\* lines 414-419: the result returned on approval
ApprovedResultAsLastAttempt(r, v) ==
    [image |-> Val(r.generatedImage), attempts |-> r.maxRetries,
     finalScore |-> v.score, validation |-> v]

ApprovedResult(r, v) ==
    [image |-> Val(r.generatedImage), attempts |-> r.attempt,
     finalScore |-> v.score, validation |-> v]

\* lines 427-430: the instructions of the next attempt
CorrectedInstructionsAsReplaced(r, v) ==
    [Val(r.instructions) EXCEPT !.drawingInstructions =
        Append(Val(r.currentInstructions).drawingInstructions,
               ExpertCorrectionText(TemplateText(v.feedbackForRegeneration)))]

CorrectedInstructions(r, v) ==
    [Val(r.instructions) EXCEPT !.drawingInstructions =
        Append(@, ExpertCorrectionText(TemplateText(v.feedbackForRegeneration)))]

\* lines 450-455 with the image of the first attempt returned
FallbackResultAsFirstImage(r, v) ==
    [image |-> RenderedImage(Val(r.oImage), Val(r.instructions), 1),
     attempts |-> r.maxRetries, finalScore |-> v.score, validation |-> v]

\* lines 450-455: the result returned after the loop
FallbackResult(r, v) ==
    [image |-> Val(r.generatedImage), attempts |-> r.maxRetries,
     finalScore |-> v.score, validation |-> v]

\* line 394 settles with an image; expertValidateImage is called (line 401)
GenerateImageReturns(o) ==
    LET r == ops[o]
        img == RenderedImage(Val(r.oImage), Val(r.instructions), Variant(r))
    IN  /\ r.pc = "generatedImage"
        /\ Event("generatedImage")
        /\ ops' = [ops EXCEPT ![o] =
               [r EXCEPT !.pc = "validation", !.generatedImage = Some(img),
                         !.validates = @ + 1,
                         !.log = Logged(r, [call |-> "render", attempt |-> r.attempt,
                                            instructions |-> Val(r.instructions),
                                            image |-> img, validation |-> None])]]
        /\ UNCHANGED appVars
        /\ UNCHANGED budget

\* line 401 settles with a validation: lines 408-432
ExpertValidateReturns(o, v) ==
    LET r == ops[o]
        r1 == [r EXCEPT !.log = Logged(r, [call |-> "validate", attempt |-> r.attempt,
                                           instructions |-> Val(r.instructions),
                                           image |-> Val(r.generatedImage),
                                           validation |-> Some(v)])]
    IN  /\ r.pc = "validation"
        /\ Event("validation")
        /\ Validations(r, v)
        /\ budget' = budget - Cost(r, v)
        /\ IF v.approved
           THEN GvsReturn(o, r1, ApprovedResult(r, v))
           ELSE /\ UNCHANGED appVars
                /\ IF r.attempt < r.maxRetries
                   THEN ops' = [ops EXCEPT ![o] = IssueRender(
                            [r1 EXCEPT !.instructions =
                                          Some(CorrectedInstructions(r, v)),
                                      !.attempt = @ + 1],
                            "generatedImage")]
                   ELSE ops' = [ops EXCEPT ![o] =
                            IssueRender([r1 EXCEPT !.attempt = @ + 1], "finalImage")]

\* line 437 settles with an image; expertValidateImage is called (line 443)
FinalImageReturns(o) ==
    LET r == ops[o]
        img == RenderedImage(Val(r.oImage), Val(r.instructions), Variant(r))
    IN  /\ r.pc = "finalImage"
        /\ Event("finalImage")
        /\ ops' = [ops EXCEPT ![o] =
               [r EXCEPT !.pc = "finalValidation", !.generatedImage = Some(img),
                         !.validates = @ + 1,
                         !.log = Logged(r, [call |-> "render", attempt |-> r.attempt,
                                            instructions |-> Val(r.instructions),
                                            image |-> img, validation |-> None])]]
        /\ UNCHANGED appVars
        /\ UNCHANGED budget

\* line 443 settles with a validation: lines 450-455
FinalValidationReturns(o, v) ==
    LET r == ops[o]
        r1 == [r EXCEPT !.log = Logged(r, [call |-> "validate", attempt |-> r.attempt,
                                           instructions |-> Val(r.instructions),
                                           image |-> Val(r.generatedImage),
                                           validation |-> Some(v)])]
    IN  /\ r.pc = "finalValidation"
        /\ Event("finalValidation")
        /\ Validations(r, v)
        /\ budget' = budget - Cost(r, v)
        /\ GvsReturn(o, r1, FallbackResult(r, v))

\* a render or validate call of generateValidatedStep rejects
RemoteCallFails(o, message) ==
    LET r == ops[o]
    IN  /\ r.pc \in {"generatedImage", "validation", "finalImage", "finalValidation"}
        /\ Event("remoteCallFails")
        /\ budget > 0
        /\ message \in ErrorMessages
        /\ budget' = budget - 1
        /\ GvsThrow(o, r, message)

----------------------------------------------------------------------------
(* handleImageUpload *)

\* lines 179-204: the handler up to the await of resizeImage.  The uploader
\* is rendered in IDLE only (renderContent, lines 428-431).
HandleImageUpload(f) ==
    /\ appState = IDLE
    /\ Event("upload")
    /\ \E o \in Slots : IsFree(o)
    /\ LaunchCost <= budget
    /\ budget' = budget - LaunchCost
    /\ abortController' = Some(NewSlot)
    /\ appState' = LOADING
    /\ error' = None
    /\ acceptedSteps' = <<>>
    /\ proposedStep' = None
    /\ currentStepNumber' = 1
    /\ currentCanvas' = None
    /\ proposedStepInstructions' = None
    /\ nextStepInstructions' = None
    /\ validationAttempts' = 0
    /\ validationScore' = None
    /\ ops' = [ops EXCEPT ![NewSlot] =
           [FreeSlot EXCEPT !.kind = "upload", !.pc = "resizeImage",
                            !.oImage = Some(ResizedImage(f))]]
    /\ UNCHANGED originalImage

\* lines 204-216: resizeImage resolved
ResizeImageReturns(o) ==
    LET r == ops[o]
    IN  /\ r.pc = "resizeImage"
        /\ Event("resizeImage")
        /\ originalImage' = r.oImage
        /\ IF r.aborted
           THEN /\ UploadRejected(CancelledMessage)
                /\ ops' = [ops EXCEPT ![o] = FreeSlot]
           ELSE /\ ops' = [ops EXCEPT ![o].pc = "generateFirstStepInstructions"]
                /\ UNCHANGED <<appState, error, abortController>>
        /\ UNCHANGED <<acceptedSteps, proposedStep, currentStepNumber,
                       currentCanvas, proposedStepInstructions,
                       nextStepInstructions, validationAttempts, validationScore,
                       budget>>

\* resizeImage or generateFirstStepInstructions rejected: lines 227-242
UploadCallFails(o, message) ==
    LET r == ops[o]
    IN  /\ r.pc \in {"resizeImage", "generateFirstStepInstructions"}
        /\ Event("uploadCallFails")
        /\ budget > 0
        /\ message \in ErrorMessages
        /\ budget' = budget - 1
        /\ UploadRejected(message)
        /\ ops' = [ops EXCEPT ![o] = FreeSlot]
        /\ UNCHANGED <<acceptedSteps, proposedStep, currentStepNumber,
                       originalImage, currentCanvas, proposedStepInstructions,
                       nextStepInstructions, validationAttempts, validationScore>>

\* lines 216-225: generateFirstStepInstructions resolved; processStep runs up
\* to the first await of generateValidatedStep
FirstStepInstructionsReturns(o) ==
    LET r == ops[o]
    IN  /\ r.pc = "generateFirstStepInstructions"
        /\ Event("firstStepInstructions")
        /\ IF r.aborted
           THEN /\ UploadRejected(CancelledMessage)
                /\ ops' = [ops EXCEPT ![o] = FreeSlot]
                /\ UNCHANGED <<proposedStep, validationAttempts, validationScore>>
           ELSE /\ abortController' = Some(o)
                /\ appState' = LOADING
                /\ proposedStep' = None
                /\ validationAttempts' = 0
                /\ validationScore' = None
                /\ error' = error
                /\ ops' = [ops EXCEPT ![o] =
                       ProcessStepOp("upload", ExpertInstruction(1), None,
                                     Val(r.oImage), None)]
        /\ UNCHANGED <<acceptedSteps, currentStepNumber, originalImage,
                       currentCanvas, proposedStepInstructions,
                       nextStepInstructions, budget>>

----------------------------------------------------------------------------
(* The handlers of the step interactor, cancel and reset *)

\* lines 246-275.  The interactor is rendered in AWAITING_USER_INPUT with a
\* proposed step only (renderContent, lines 361-377).
HandleAcceptStep ==
    /\ appState = AWAITING_USER_INPUT
    /\ Event("accept")
    /\ proposedStep # None
    /\ \E o \in Slots : IsFree(o)
    /\ LaunchCost <= budget
    /\ UNCHANGED <<error, originalImage, nextStepInstructions>>
    /\ IF originalImage = None
       THEN UNCHANGED <<budget, appState, acceptedSteps, proposedStep, currentStepNumber,
                        currentCanvas, proposedStepInstructions,
                        validationAttempts, validationScore, abortController, ops>>
       ELSE LET newCanvas == CanvasFromUrl(Val(proposedStep).imageUrl)
                nextStepNumber == currentStepNumber + 1
            IN  /\ acceptedSteps' = Append(acceptedSteps, Val(proposedStep))
                /\ currentCanvas' = Some(newCanvas)
                /\ proposedStep' = None
                /\ proposedStepInstructions' = None
                /\ currentStepNumber' = nextStepNumber
                /\ IF nextStepNumber <= totalSteps /\ nextStepInstructions # None
                   THEN /\ budget' = budget - LaunchCost
                        /\ abortController' = Some(NewSlot)
                        /\ appState' = LOADING
                        /\ validationAttempts' = 0
                        /\ validationScore' = None
                        /\ ops' = [ops EXCEPT ![NewSlot] =
                               ProcessStepOp("step", Val(nextStepInstructions),
                                             Some(newCanvas), Val(originalImage),
                                             None)]
                   ELSE /\ appState' = RESULTS
                        /\ UNCHANGED <<budget, validationAttempts, validationScore,
                                       abortController, ops>>

\* processStep called from a retry handler: lines 102-127
RetryWith(feedback) ==
    /\ UNCHANGED <<error, acceptedSteps, currentStepNumber, originalImage,
                   currentCanvas, proposedStepInstructions, nextStepInstructions>>
    /\ IF proposedStepInstructions = None \/ originalImage = None
       THEN UNCHANGED <<appState, proposedStep, validationAttempts,
                        validationScore, abortController, ops>>
       ELSE /\ abortController' = Some(NewSlot)
            /\ appState' = LOADING
            /\ proposedStep' = None
            /\ validationAttempts' = 0
            /\ validationScore' = None
            /\ ops' = [ops EXCEPT ![NewSlot] =
                   ProcessStepOp("step", Val(proposedStepInstructions),
                                 currentCanvas, Val(originalImage), Some(feedback))]

\* What a retry click costs the environment: nothing when the handler returns
\* at its guard
RetryCost ==
    IF proposedStepInstructions = None \/ originalImage = None THEN 0
    ELSE 1 + LaunchCost

\* lines 278-281
HandleRetryStep(feedback) ==
    /\ appState = AWAITING_USER_INPUT
    /\ Event("retry")
    /\ proposedStep # None
    /\ \E o \in Slots : IsFree(o)
    /\ RetryCost <= budget
    /\ feedback \in UserFeedbacks
    /\ budget' = budget - RetryCost
    /\ RetryWith(feedback)

\* Number.prototype.toFixed(1) of h / 100, for h >= 0
ToFixed1AsTruncated(h) ==
    LET tenths == h \div 10
    IN  <<tenths \div 10, ".", tenths % 10>>

ToFixed1(h) ==
    LET tenths == (h + 5) \div 10
    IN  <<tenths \div 10, ".", tenths % 10>>

\* lines 290-296: the feedback text of an area retry
AreaFeedback(area, feedback) ==
    <<"FOCUSED AREA CORRECTION:", "\n",
      "Area coordinates: x=", ToFixed1(area.x), "%, y=", ToFixed1(area.y),
      "%, width=", ToFixed1(area.width), "%, height=", ToFixed1(area.height), "%",
      "\n", "This represents the specific region that needs improvement.", "\n",
      "USER FEEDBACK FOR THIS AREA: ", feedback, "\n",
      "IMPORTANT: Focus your improvements ONLY on the specified area.">>

\* lines 285-299
HandleAreaRetryStep(area, feedback) ==
    /\ appState = AWAITING_USER_INPUT
    /\ Event("areaRetry")
    /\ proposedStep # None
    /\ \E o \in Slots : IsFree(o)
    /\ RetryCost <= budget
    /\ area \in Areas
    /\ feedback \in UserFeedbacks
    /\ budget' = budget - RetryCost
    /\ RetryWith(AreaFeedback(area, feedback))

\* lines 302-309.  The stop button is rendered in LOADING only (lines 337-358).
HandleCancelGeneration ==
    /\ appState = LOADING
    /\ Event("cancel")
    /\ budget > 0
    /\ budget' = budget - 1
    /\ IF abortController # None
       THEN /\ ops' = [ops EXCEPT ![Val(abortController)].aborted = TRUE]
            /\ abortController' = None
       ELSE UNCHANGED <<ops, abortController>>
    /\ appState' = IDLE
    /\ UNCHANGED <<error, acceptedSteps, proposedStep, currentStepNumber,
                   originalImage, currentCanvas, proposedStepInstructions,
                   nextStepInstructions, validationAttempts, validationScore>>

\* lines 312-332.  Reset is offered by the gallery (RESULTS) and by the error
\* screen (ERROR): lines 411-427.
HandleResetAsUploadReset ==
    /\ appState \in {RESULTS, ERROR}
    /\ Event("reset")
    /\ IF abortController # None
       THEN /\ ops' = [ops EXCEPT ![Val(abortController)].aborted = TRUE]
            /\ abortController' = None
       ELSE UNCHANGED <<ops, abortController>>
    /\ appState' = IDLE
    /\ acceptedSteps' = <<>>
    /\ proposedStep' = None
    /\ currentStepNumber' = 1
    /\ UNCHANGED originalImage
    /\ currentCanvas' = None
    /\ proposedStepInstructions' = None
    /\ nextStepInstructions' = None
    /\ error' = None
    /\ validationAttempts' = 0
    /\ validationScore' = None
    /\ UNCHANGED budget

HandleReset ==
    /\ appState \in {RESULTS, ERROR}
    /\ Event("reset")
    /\ IF abortController # None
       THEN /\ ops' = [ops EXCEPT ![Val(abortController)].aborted = TRUE]
            /\ abortController' = None
       ELSE UNCHANGED <<ops, abortController>>
    /\ appState' = IDLE
    /\ acceptedSteps' = <<>>
    /\ proposedStep' = None
    /\ currentStepNumber' = 1
    /\ originalImage' = None
    /\ currentCanvas' = None
    /\ proposedStepInstructions' = None
    /\ nextStepInstructions' = None
    /\ error' = None
    /\ validationAttempts' = 0
    /\ validationScore' = None
    /\ UNCHANGED budget

----------------------------------------------------------------------------
(* The tutorial state machine *)

Init ==
    /\ appState = IDLE
    /\ error = None
    /\ acceptedSteps = <<>>
    /\ proposedStep = None
    /\ currentStepNumber = 1
    /\ originalImage = None
    /\ currentCanvas = None
    /\ proposedStepInstructions = None
    /\ nextStepInstructions = None
    /\ validationAttempts = 0
    /\ validationScore = None
    /\ abortController = None
    /\ ops = [o \in Slots |-> FreeSlot]
    /\ resize = NoResize
    /\ last = "init"
    /\ budget = MaxDeviations

Next ==
    \/ \E f \in Files : HandleImageUpload(f)
    \/ \E o \in Slots : ResizeImageReturns(o)
    \/ \E o \in Slots, m \in ErrorMessages : UploadCallFails(o, m)
    \/ \E o \in Slots : FirstStepInstructionsReturns(o)
    \/ \E o \in Slots : GenerateImageReturns(o)
    \/ \E o \in Slots : \E v \in AllValidations : ExpertValidateReturns(o, v)
    \/ \E o \in Slots : FinalImageReturns(o)
    \/ \E o \in Slots : \E v \in AllValidations : FinalValidationReturns(o, v)
    \/ \E o \in Slots, m \in ErrorMessages : RemoteCallFails(o, m)
    \/ HandleAcceptStep
    \/ \E fb \in UserFeedbacks : HandleRetryStep(fb)
    \/ \E a \in Areas, fb \in UserFeedbacks : HandleAreaRetryStep(a, fb)
    \/ HandleCancelGeneration
    \/ HandleReset

Spec == Init /\ [][Next]_vars

----------------------------------------------------------------------------
(* generateValidatedStep called directly, with every input of the bounds *)

DirectSteps == {1, totalSteps}
\* no feedback, an empty one, white space only, and words inside white space
DirectFeedbacks ==
    {None} \cup {Some(fb) : fb \in {<<>>, <<" ">>, <<" ", "bolder", " ">>}}

InitDirect ==
    /\ appState = IDLE
    /\ error = None
    /\ acceptedSteps = <<>>
    /\ proposedStep = None
    /\ currentStepNumber = 1
    /\ originalImage = None
    /\ currentCanvas = None
    /\ proposedStepInstructions = None
    /\ nextStepInstructions = None
    /\ validationAttempts = 0
    /\ validationScore = None
    /\ abortController = None
    /\ budget = MaxUnprompted
    /\ resize = NoResize
    /\ last = "init"
    /\ \E R \in 1..MaxR, k \in DirectSteps, fb \in DirectFeedbacks :
          ops = [o \in Slots |->
                    IF o = 1
                    THEN GvsEnter([FreeSlot EXCEPT
                             !.kind = "direct", !.pc = "entered",
                             !.oImage = Some(ResizedImage(1)),
                             !.canvas = IF k = 1 THEN None
                                        ELSE Some(RenderedImage(ResizedImage(1),
                                                      ExpertInstruction(k - 1), 0)),
                             !.currentInstructions = Some(ExpertInstruction(k)),
                             !.userFeedback = fb,
                             !.maxRetries = R])
                    ELSE FreeSlot]

NextDirect ==
    \/ \E o \in Slots : GenerateImageReturns(o)
    \/ \E o \in Slots : \E v \in AllValidations : ExpertValidateReturns(o, v)
    \/ \E o \in Slots : FinalImageReturns(o)
    \/ \E o \in Slots : \E v \in AllValidations : FinalValidationReturns(o, v)
    \/ \E o \in Slots, m \in ErrorMessages : RemoteCallFails(o, m)

SpecDirect == InitDirect /\ [][NextDirect]_vars

----------------------------------------------------------------------------
(* The tutorial when every call returns successfully and the user neither     *)
(* cancels nor resets                                                         *)

InitLive ==
    /\ appState = IDLE
    /\ error = None
    /\ acceptedSteps = <<>>
    /\ proposedStep = None
    /\ currentStepNumber = 1
    /\ originalImage = None
    /\ currentCanvas = None
    /\ proposedStepInstructions = None
    /\ nextStepInstructions = None
    /\ validationAttempts = 0
    /\ validationScore = None
    /\ abortController = None
    /\ ops = [o \in Slots |-> FreeSlot]
    /\ resize = NoResize
    /\ last = "init"
    /\ budget = MaxRejections

\* The calls that are awaited: each one settles
ResizeSettles == \E o \in Slots : ResizeImageReturns(o)
PlanSettles == \E o \in Slots : FirstStepInstructionsReturns(o)
RenderSettles == \E o \in Slots : GenerateImageReturns(o)
ValidationSettles ==
    \E o \in Slots : \E v \in AllValidations : ExpertValidateReturns(o, v)
FinalRenderSettles == \E o \in Slots : FinalImageReturns(o)
FinalValidationSettles ==
    \E o \in Slots : \E v \in AllValidations : FinalValidationReturns(o, v)

\* One file and the plain retry stand for every upload and every retry.
NextLive ==
    \/ HandleImageUpload(1)
    \/ ResizeSettles
    \/ PlanSettles
    \/ RenderSettles
    \/ ValidationSettles
    \/ FinalRenderSettles
    \/ FinalValidationSettles
    \/ HandleAcceptStep
    \/ \E fb \in UserFeedbacks : HandleRetryStep(fb)

SpecLive ==
    /\ InitLive
    /\ [][NextLive]_vars
    /\ WF_vars(ResizeSettles)
    /\ WF_vars(PlanSettles)
    /\ WF_vars(RenderSettles)
    /\ WF_vars(ValidationSettles)
    /\ WF_vars(FinalRenderSettles)
    /\ WF_vars(FinalValidationSettles)

----------------------------------------------------------------------------
(* resizeImage(file, maxWidth, maxHeight), called with 1024 x 1024 *)

\* Math.round(a / b) for a >= 0 and b > 0: halves round up
MathRoundAsFloor(a, b) == a \div b

MathRound(a, b) == (2 * a + b) \div (2 * b)

\* lines 31-45: the dimensions of the canvas for an image of width x height
ResizeDimensions(width, height, maxWidth, maxHeight) ==
    IF width > height
    THEN IF width > maxWidth
         THEN [width |-> maxWidth, height |-> MathRound(height * maxWidth, width)]
         ELSE [width |-> width, height |-> height]
    ELSE IF height > maxHeight
         THEN [width |-> MathRound(width * maxHeight, height), height |-> maxHeight]
         ELSE [width |-> width, height |-> height]

\* lines 21-28: the file is read and handed to an image element
ReaderOnload ==
    /\ resize.pc = "reading"
    /\ resize' = [resize EXCEPT !.pc = "decoding"]
    /\ last' = "reader.onload"
    /\ UNCHANGED <<appVars, ops, budget>>

\* lines 29-62: the image is decoded, the canvas is sized and drawn, the
\* promise resolves with the canvas dimensions
ImgOnload ==
    /\ resize.pc = "decoding"
    /\ LET d == ResizeDimensions(resize.naturalWidth, resize.naturalHeight,
                                 ResizeMax, ResizeMax)
       IN  resize' = [resize EXCEPT !.pc = "resolved", !.width = d.width,
                                    !.height = d.height]
    /\ last' = "img.onload"
    /\ UNCHANGED <<appVars, ops, budget>>

\* lines 25, 51, 63, 65: the file cannot be read or decoded, or there is no
\* 2d context
ResizeRejects ==
    /\ resize.pc \in {"reading", "decoding"}
    /\ resize' = [resize EXCEPT !.pc = "rejected"]
    /\ last' = "reject"
    /\ UNCHANGED <<appVars, ops, budget>>

InitResize ==
    /\ appState = IDLE
    /\ error = None
    /\ acceptedSteps = <<>>
    /\ proposedStep = None
    /\ currentStepNumber = 1
    /\ originalImage = None
    /\ currentCanvas = None
    /\ proposedStepInstructions = None
    /\ nextStepInstructions = None
    /\ validationAttempts = 0
    /\ validationScore = None
    /\ abortController = None
    /\ ops = [o \in Slots |-> FreeSlot]
    /\ budget = 0
    /\ last = "init"
    /\ \E w \in Dims, h \in Dims :
          resize = [pc |-> "reading", naturalWidth |-> w, naturalHeight |-> h,
                    width |-> 0, height |-> 0]

NextResize ==
    \/ ReaderOnload
    \/ ImgOnload
    \/ ResizeRejects

SpecResize == InitResize /\ [][NextResize]_vars

----------------------------------------------------------------------------
(* generateImageFromInstructions: the response of the remote illustrator *)

\* new Error('Image generation failed to return an image.')
NoImageMessage ==
    <<"Image", " ", "generation", " ", "failed", " ", "to", " ", "return", " ",
      "an", " ", "image.">>

\* The parts of a response: a part has a text or inline data
TextPart(words) == [text |-> Some(words), inlineData |-> None]
InlinePart(img) ==
    [text |-> None,
     inlineData |-> Some([data |-> img.base64, mimeType |-> img.mimeType])]

\* The responses of the model to a render of r: no part, text only, text and
\* the image, and two images around a text
RenderResponses(r) ==
    LET img == RenderedImage(Val(r.oImage), Val(r.instructions), Variant(r))
        other == RenderedImage(Val(r.oImage), Val(r.instructions), Variant(r) + 1)
        note == TextPart(<<"Here", " ", "is", " ", "the", " ", "step">>)
    IN  { <<>>, <<note>>, <<note, InlinePart(img)>>,
          <<InlinePart(img), note, InlinePart(other)>> }

\* lines 247-251 with the last inline part taken instead of the first
RECURSIVE FirstInlineDataAsLast(_)
FirstInlineDataAsLast(parts) ==
    IF parts = <<>> THEN None
    ELSE LET part == parts[Len(parts)]
         IN  IF part.inlineData # None
             THEN Some(ImageObject(Val(part.inlineData).data,
                                   Val(part.inlineData).mimeType))
             ELSE FirstInlineDataAsLast(SubSeq(parts, 1, Len(parts) - 1))

\* lines 247-251: the loop over the parts returns at the first inline data
RECURSIVE FirstInlineData(_)
FirstInlineData(parts) ==
    IF parts = <<>> THEN None
    ELSE LET part == Head(parts)
         IN  IF part.inlineData # None
             THEN Some(ImageObject(Val(part.inlineData).data,
                                   Val(part.inlineData).mimeType))
             ELSE FirstInlineData(Tail(parts))

\* line 394 or 437 settles with the response `parts`: the image goes to
\* expertValidateImage, or line 253 throws out of generateValidatedStep
RenderResponds(o, parts) ==
    LET r == ops[o]
        found == FirstInlineData(parts)
    IN  /\ r.pc \in {"generatedImage", "finalImage"}
        /\ parts \in RenderResponses(r)
        /\ Event("renderResponse")
        /\ IF found = None
           THEN /\ budget > 0
                /\ budget' = budget - 1
                /\ GvsThrow(o, r, NoImageMessage)
           ELSE /\ ops' = [ops EXCEPT ![o] =
                       [r EXCEPT !.pc = IF r.pc = "generatedImage"
                                        THEN "validation" ELSE "finalValidation",
                                 !.generatedImage = found,
                                 !.validates = @ + 1,
                                 !.log = Logged(r, [call |-> "render",
                                                    attempt |-> r.attempt,
                                                    instructions |-> Val(r.instructions),
                                                    image |-> Val(found),
                                                    validation |-> None])]]
                /\ UNCHANGED appVars
                /\ UNCHANGED budget

\* The tutorial with every render answered by a response of the model
NextRender ==
    \/ \E f \in Files : HandleImageUpload(f)
    \/ ResizeSettles
    \/ PlanSettles
    \/ \E o \in Slots :
          /\ ops[o].pc \in {"generatedImage", "finalImage"}
          /\ \E parts \in RenderResponses(ops[o]) : RenderResponds(o, parts)
    \/ ValidationSettles
    \/ FinalValidationSettles
    \/ HandleAcceptStep
    \/ \E fb \in UserFeedbacks : HandleRetryStep(fb)
    \/ HandleCancelGeneration
    \/ HandleReset

SpecRender == Init /\ [][NextRender]_vars

----------------------------------------------------------------------------
(* generateFirstStepInstructions and expertValidateImage: the response text  *)

\* The fields of the two response schemas, in schema order
PlanRequired ==
    <<"stepNumber", "totalSteps", "targetCompleteness", "whatToDraw",
      "drawingInstructions", "avoidance">>
ValidationRequired == <<"approved", "score", "issues", "nextAction">>
ValidationOptional == <<"feedbackForRegeneration", "instructionsForNextStep">>

Range(seq) == {seq[i] : i \in 1..Len(seq)}

\* The literal the remote model writes for a field
Literal(key) ==
    CASE key \in {"stepNumber", "totalSteps", "targetCompleteness", "score"} -> "40"
      [] key = "approved" -> "false"
      [] key = "issues" -> "[]"
      [] key = "instructionsForNextStep" -> "{...}"
      [] OTHER -> "\"...\""

\* A JSON text is a sequence of words: { key : literal , key : literal }
JsonText(keys) ==
    <<"{">>
    \o [i \in 1..(IF keys = <<>> THEN 0 ELSE 4 * Len(keys) - 1) |->
           CASE i % 4 = 1 -> keys[(i + 3) \div 4]
             [] i % 4 = 2 -> ":"
             [] i % 4 = 3 -> Literal(keys[(i + 3) \div 4])
             [] OTHER -> ","]
    \o <<"}">>

\* The object with the fields `fields` of the schema `schema`, as text
ObjectText(schema, fields) == JsonText(SelectSeq(schema, LAMBDA k : k \in fields))

\* response.text of the remote model for a schema: every choice of fields, the
\* complete object inside white space, a truncated object, prose, the empty
\* text and no text at all
ResponseTexts(schema, required) ==
    {Some(ObjectText(schema, fields)) : fields \in SUBSET Range(schema)}
    \cup {Some(<<" ">> \o ObjectText(schema, Range(required)) \o <<" ", " ">>),
          Some(SubSeq(ObjectText(schema, Range(required)), 1, 4)),
          Some(<<"Sorry,", " ", "I", " ", "cannot">>),
          Some(<<>>),
          None}

Punctuation == {"{", "}", ":", ",", " "}

\* JSON.parse: None for a SyntaxError, otherwise the object, a function from
\* its keys to their literals (the last member wins for a repeated key)
JsonParse(text) ==
    LET n == Len(text) - 2
        inner == SubSeq(text, 2, Len(text) - 1)
        count == (n + 1) \div 4
        wellFormed ==
            /\ Len(text) >= 2
            /\ text[1] = "{" /\ text[Len(text)] = "}"
            /\ n = 0 \/ n % 4 = 3
            /\ \A i \in 1..n :
                  CASE i % 4 = 2 -> inner[i] = ":"
                    [] i % 4 = 0 -> inner[i] = ","
                    [] OTHER -> inner[i] \notin Punctuation
        keys == {inner[4 * m - 3] : m \in 1..count}
        lastOf(k) == CHOOSE m \in 1..count :
                        /\ inner[4 * m - 3] = k
                        /\ \A j \in 1..count : inner[4 * j - 3] = k => j <= m
    IN  IF wellFormed THEN Some([k \in keys |-> inner[4 * lastOf(k) - 1]]) ELSE None

SyntaxErrorMessage == <<"SyntaxError">>
TypeErrorMessage == <<"TypeError">>

\* `const jsonStr = response.text.trim(); return JSON.parse(jsonStr) as T;`
\* the call of r settles with the response text `resp`
ParseResponse(r, resp) ==
    LET parsed == JsonParse(Trim(Val(resp)))
    IN  IF resp = None
        THEN [r EXCEPT !.pc = "threw", !.thrown = Some(TypeErrorMessage),
                       !.log = <<resp>>]
        ELSE IF parsed = None
        THEN [r EXCEPT !.pc = "threw", !.thrown = Some(SyntaxErrorMessage),
                       !.log = <<resp>>]
        ELSE [r EXCEPT !.pc = "returned", !.result = parsed, !.log = <<resp>>]

\* generateFirstStepInstructions, lines 166-185
FirstStepInstructionsResponds(o, resp) ==
    /\ ops[o].kind = "plan" /\ ops[o].pc = "planResponse"
    /\ resp \in ResponseTexts(PlanRequired, PlanRequired)
    /\ Event("planResponse")
    /\ ops' = [ops EXCEPT ![o] = ParseResponse(ops[o], resp)]
    /\ UNCHANGED appVars
    /\ UNCHANGED budget

\* expertValidateImage, lines 323-362
ExpertValidateResponds(o, resp) ==
    /\ ops[o].kind = "validate" /\ ops[o].pc = "validationResponse"
    /\ resp \in ResponseTexts(ValidationRequired \o ValidationOptional,
                              ValidationRequired)
    /\ Event("validationResponse")
    /\ ops' = [ops EXCEPT ![o] = ParseResponse(ops[o], resp)]
    /\ UNCHANGED appVars
    /\ UNCHANGED budget

\* One call of either function is outstanding
InitParse ==
    /\ appState = IDLE
    /\ error = None
    /\ acceptedSteps = <<>>
    /\ proposedStep = None
    /\ currentStepNumber = 1
    /\ originalImage = None
    /\ currentCanvas = None
    /\ proposedStepInstructions = None
    /\ nextStepInstructions = None
    /\ validationAttempts = 0
    /\ validationScore = None
    /\ abortController = None
    /\ budget = 0
    /\ resize = NoResize
    /\ last = "init"
    /\ \E call \in {[kind |-> "plan", pc |-> "planResponse", step |-> 1]}
                   \cup {[kind |-> "validate", pc |-> "validationResponse", step |-> k] :
                             k \in DirectSteps} :
          ops = [o \in Slots |->
                    IF o = 1
                    THEN [FreeSlot EXCEPT
                             !.kind = call.kind, !.pc = call.pc,
                             !.oImage = Some(ResizedImage(1)),
                             !.currentInstructions =
                                 IF call.kind = "plan" THEN None
                                 ELSE Some(ExpertInstruction(call.step))]
                    ELSE FreeSlot]

NextParse ==
    \/ \E o \in Slots : \E resp \in ResponseTexts(PlanRequired, PlanRequired) :
          FirstStepInstructionsResponds(o, resp)
    \/ \E o \in Slots :
          \E resp \in ResponseTexts(ValidationRequired \o ValidationOptional,
                                    ValidationRequired) :
              ExpertValidateResponds(o, resp)

SpecParse == InitParse /\ [][NextParse]_vars

----------------------------------------------------------------------------
(* generateCompleteDrawingTutorial *)

MaxBatchSteps == 3              \* largest totalSteps of a batch run

\* Instructions of step n as the remote expert writes them for a tutorial of
\* `total` steps
BatchInstruction(n, total) ==
    [ExpertInstruction(n) EXCEPT !.totalSteps = total]

\* lines 516-523 with the number of the step just completed
PlaceholderAsSameStep(i, total) ==
    [stepNumber |-> i + 1,
     totalSteps |-> total,
     targetCompleteness |-> MathRound((i + 2) * 100, total),
     whatToDraw |-> <<"Continue refining the drawing with more detail">>,
     drawingInstructions |->
         <<<<"HOW", <<"Add more details and refine the previous step">>>>>>,
     avoidance |-> <<"Don't skip ahead or add too many details at once">>]

\* lines 516-523: the instructions made up when the validation gave none
Placeholder(i, total) ==
    [stepNumber |-> i + 2,
     totalSteps |-> total,
     targetCompleteness |-> MathRound((i + 2) * 100, total),
     whatToDraw |-> <<"Continue refining the drawing with more detail">>,
     drawingInstructions |->
         <<<<"HOW", <<"Add more details and refine the previous step">>>>>>,
     avoidance |-> <<"Don't skip ahead or add too many details at once">>]

\* The invocation record of generateCompleteDrawingTutorial: its parameters,
\* its locals, the ghost logs of its calls and callbacks, and its outcome
BatchOp(image, total, callback) ==
    [kind |-> "batch", pc |-> "generateFirstStepInstructions",
     originalImage |-> image, totalSteps |-> total, onStepComplete |-> callback,
     completedSteps |-> <<>>, currentInstructions |-> None,
     previousCanvas |-> None, i |-> 0,
     calls |-> <<>>, callbacks |-> <<>>, result |-> None, thrown |-> None]

\* The results generateValidatedStep may resolve with for the call of b: an
\* image rendered from its arguments, a score, the attempts made, and a
\* validation with or without the next step's instructions (never with them
\* for the last step, whose schema has none)
BatchStepResults(b) ==
    LET cur == Val(b.currentInstructions)
        nexts == IF cur.stepNumber + 1 > cur.totalSteps THEN {None}
                 ELSE {None, Some(BatchInstruction(cur.stepNumber + 1, cur.totalSteps))}
    IN  { [image |-> RenderedImage(b.originalImage, cur, n),
           attempts |-> n,
           finalScore |-> sc,
           validation |-> [approved |-> sc >= ApprovalScore, score |-> sc,
                           feedbackForRegeneration |-> None,
                           instructionsForNextStep |-> nx]] :
          n \in {1, AppMaxRetries}, sc \in {60, 90}, nx \in nexts }

\* lines 490-494: the head of the loop calls generateValidatedStep, or the
\* loop is over and line 527 returns
BatchLoop(b) ==
    IF b.i < b.totalSteps
    THEN [b EXCEPT !.pc = "generateValidatedStep",
                   !.calls = Append(@, [previousCanvas |-> b.previousCanvas,
                                        instructions |-> Val(b.currentInstructions)])]
    ELSE [b EXCEPT !.pc = "returned",
                   !.result = Some([steps |-> b.completedSteps])]

\* line 484 settles with the first step's instructions
BatchPlanReturns(o) ==
    LET b == ops[o]
    IN  /\ b.kind = "batch" /\ b.pc = "generateFirstStepInstructions"
        /\ Event("batchPlan")
        /\ ops' = [ops EXCEPT ![o] =
               BatchLoop([b EXCEPT !.currentInstructions =
                                       Some(BatchInstruction(1, b.totalSteps))])]
        /\ UNCHANGED appVars
        /\ UNCHANGED budget

\* line 490 settles with `result`: lines 496-524 and the next turn of the loop
BatchStepReturns(o, result) ==
    LET b == ops[o]
        cur == Val(b.currentInstructions)
        nx == result.validation.instructionsForNextStep
        b1 == [b EXCEPT
                 !.completedSteps =
                     Append(@, [stepNumber |-> cur.stepNumber,
                                image |-> result.image,
                                instructions |-> cur,
                                score |-> result.finalScore,
                                attempts |-> result.attempts]),
                 !.callbacks =
                     IF b.onStepComplete
                     THEN Append(@, [stepNumber |-> cur.stepNumber,
                                     image |-> result.image,
                                     score |-> result.finalScore])
                     ELSE @,
                 !.previousCanvas = Some(result.image),
                 !.currentInstructions =
                     IF nx # None THEN nx
                     ELSE IF b.i < b.totalSteps - 1
                     THEN Some(Placeholder(b.i, b.totalSteps))
                     ELSE @,
                 !.i = @ + 1]
    IN  /\ b.kind = "batch" /\ b.pc = "generateValidatedStep"
        /\ result \in BatchStepResults(b)
        /\ Event("batchStep")
        /\ ops' = [ops EXCEPT ![o] = BatchLoop(b1)]
        /\ UNCHANGED appVars
        /\ UNCHANGED budget

\* line 484 or line 490 rejects: the error leaves the function
BatchCallFails(o, message) ==
    LET b == ops[o]
    IN  /\ b.kind = "batch"
        /\ b.pc \in {"generateFirstStepInstructions", "generateValidatedStep"}
        /\ message \in ErrorMessages
        /\ Event("batchCallFails")
        /\ ops' = [ops EXCEPT ![o] = [b EXCEPT !.pc = "threw",
                                                !.thrown = Some(message)]]
        /\ UNCHANGED appVars
        /\ UNCHANGED budget

\* generateCompleteDrawingTutorial is called with 1..MaxBatchSteps steps, with
\* and without a callback
InitBatch ==
    /\ appState = IDLE
    /\ error = None
    /\ acceptedSteps = <<>>
    /\ proposedStep = None
    /\ currentStepNumber = 1
    /\ originalImage = None
    /\ currentCanvas = None
    /\ proposedStepInstructions = None
    /\ nextStepInstructions = None
    /\ validationAttempts = 0
    /\ validationScore = None
    /\ abortController = None
    /\ budget = 0
    /\ resize = NoResize
    /\ last = "init"
    /\ \E total \in 1..MaxBatchSteps, callback \in BOOLEAN :
          ops = [o \in Slots |->
                    IF o = 1 THEN BatchOp(ResizedImage(1), total, callback)
                    ELSE FreeSlot]

NextBatch ==
    \/ \E o \in Slots : BatchPlanReturns(o)
    \/ \E o \in Slots :
          /\ ops[o].pc = "generateValidatedStep"
          /\ \E result \in BatchStepResults(ops[o]) : BatchStepReturns(o, result)
    \/ \E o \in Slots, m \in ErrorMessages : BatchCallFails(o, m)

SpecBatch == InitBatch /\ [][NextBatch]_vars

----------------------------------------------------------------------------
(* Properties *)

GvsPcs == {"generatedImage", "validation", "finalImage", "finalValidation"}

\* The ghost log of a direct invocation: entry 2k-1 is the render of attempt
\* k and entry 2k its validation.
IsDirect(o) == ops[o].kind = "direct"
RenderOf(o, k) == ops[o].log[2 * k - 1]
ValidationOf(o, k) == Val(ops[o].log[2 * k].validation)
Validated(o) == Len(ops[o].log) \div 2
Rendered(o) == (Len(ops[o].log) + 1) \div 2

\* C1: a cancel leaves appState IDLE, and the result of a cancelled
\* generateValidatedStep is discarded when it resolves: appState, proposedStep,
\* proposedStepInstructions, nextStepInstructions, validationAttempts and
\* validationScore keep the values they had after the cancel.
C1_CancelledResultIsDiscarded ==
    [][ /\ HandleCancelGeneration => appState' = IDLE
        /\ \A o \in Slots :
              ( /\ ops[o].aborted
                /\ ops[o].pc \in {"validation", "finalValidation"}
                /\ \E v \in AllValidations :
                      \/ ExpertValidateReturns(o, v) /\ v.approved
                      \/ FinalValidationReturns(o, v) )
              => UNCHANGED <<appState, proposedStep, proposedStepInstructions,
                             nextStepInstructions, validationAttempts,
                             validationScore>> ]_vars

\* C2: once its controller is aborted, an invocation of generateValidatedStep
\* starts no further render and no further validate call.
C2_NoCallAfterAbort ==
    [][ \A o \in Slots :
           (ops[o].aborted /\ ops[o].pc \in GvsPcs /\ ops'[o].pc # "free")
           => /\ ops'[o].renders = ops[o].renders
              /\ ops'[o].validates = ops[o].validates ]_vars

\* The attempt among 1..maxRetries with the highest score, the earliest on ties
BestAttempt(o) ==
    CHOOSE k \in 1..ops[o].maxRetries :
        \A j \in 1..ops[o].maxRetries :
            \/ ValidationOf(o, k).score > ValidationOf(o, j).score
            \/ ValidationOf(o, k).score = ValidationOf(o, j).score /\ k <= j

NoneApproved(o) ==
    /\ Validated(o) >= ops[o].maxRetries
    /\ \A k \in 1..ops[o].maxRetries : ~ValidationOf(o, k).approved

\* C3: when none of the maxRetries attempts is approved, generateValidatedStep
\* returns the image and the validation of the attempt with the highest score
\* (the earliest on ties), finalScore is that score and attempts = maxRetries.
C3_BestAttemptIsReturned ==
    \A o \in Slots :
        (IsDirect(o) /\ ops[o].pc = "returned" /\ NoneApproved(o))
        => LET b == BestAttempt(o)
               res == Val(ops[o].result)
           IN  /\ res.image = RenderOf(o, b).image
               /\ res.validation = ValidationOf(o, b)
               /\ res.finalScore = ValidationOf(o, b).score
               /\ res.attempts = ops[o].maxRetries

\* C4: one invocation of generateValidatedStep with maxRetries = R >= 1 calls
\* generateImageFromInstructions at most R times.
C4_AtMostRRenders ==
    \A o \in Slots : IsDirect(o) => ops[o].renders <= ops[o].maxRetries

\* C5: generateValidatedStep returns at the first attempt k <= maxRetries whose
\* validation is approved, with that attempt's image, validation and score and
\* attempts = k, and calls nothing after that validation.
C5_EarlyReturnOnApproval ==
    \A o \in Slots :
        IsDirect(o) =>
            \A k \in 1..Validated(o) :
                (k <= ops[o].maxRetries /\ ValidationOf(o, k).approved)
                => /\ ops[o].pc = "returned"
                   /\ Len(ops[o].log) = 2 * k
                   /\ ops[o].renders = k
                   /\ ops[o].validates = k
                   /\ Val(ops[o].result) =
                          [image |-> RenderOf(o, k).image, attempts |-> k,
                           finalScore |-> ValidationOf(o, k).score,
                           validation |-> ValidationOf(o, k)]

\* the scores 40, 60, 90 with the approval at 90 give attempts = 3, finalScore = 90
C5_Witness ==
    \E o \in Slots :
        /\ IsDirect(o) /\ ops[o].pc = "returned" /\ Validated(o) = 3
        /\ ValidationOf(o, 1).score = 40 /\ ~ValidationOf(o, 1).approved
        /\ ValidationOf(o, 2).score = 60 /\ ~ValidationOf(o, 2).approved
        /\ ValidationOf(o, 3).score = 90 /\ ValidationOf(o, 3).approved
        /\ Val(ops[o].result).attempts = 3
        /\ Val(ops[o].result).finalScore = 90

\* The text of attempt 1: the original instructions, then the user's feedback
\* when one is given
FirstAttemptText(o) ==
    LET orig == Val(ops[o].currentInstructions).drawingInstructions
        fb == ops[o].userFeedback
    IN  IF fb # None /\ Trim(Val(fb)) # <<>>
        THEN orig \o <<UserFeedbackText(Val(fb))>>
        ELSE orig

\* The corrections of the failed attempts 1..k, in attempt order
CorrectionsOf(o, k) ==
    [j \in 1..k |->
        ExpertCorrectionText(TemplateText(ValidationOf(o, j).feedbackForRegeneration))]

\* C6: the instructions rendered at attempt k + 1 <= maxRetries are the
\* original ones with drawingInstructions = the text of attempt 1 followed, in
\* attempt order, by the feedbackForRegeneration of every failed attempt 1..k.
C6_FeedbackAccumulates ==
    \A o \in Slots :
        IsDirect(o) =>
            \A k \in 1..Rendered(o) :
                k <= ops[o].maxRetries
                => RenderOf(o, k).instructions =
                       [Val(ops[o].currentInstructions) EXCEPT
                           !.drawingInstructions =
                               FirstAttemptText(o) \o CorrectionsOf(o, k - 1)]

\* after the corrections "fix A" then "fix B", attempt 3 is rendered from the
\* original text, then "fix A", then "fix B"
C6_Witness ==
    \E o \in Slots :
        /\ IsDirect(o) /\ Rendered(o) >= 3 /\ ops[o].maxRetries >= 3
        /\ ops[o].userFeedback = None
        /\ RenderOf(o, 3).instructions.drawingInstructions =
               Val(ops[o].currentInstructions).drawingInstructions
               \o <<ExpertCorrectionText(<<"fix A">>), ExpertCorrectionText(<<"fix B">>)>>

\* C7: acceptedSteps holds the steps 1..n in order, without gaps or duplicates.
C7_AcceptedStepsInOrder ==
    \A i \in 1..Len(acceptedSteps) : acceptedSteps[i].step = i

\* C8: in RESULTS acceptedSteps holds exactly the steps 1..totalSteps in order.
C8_ResultsHoldEveryStep ==
    appState = RESULTS
    => /\ Len(acceptedSteps) = totalSteps
       /\ \A i \in 1..Len(acceptedSteps) : acceptedSteps[i].step = i

\* C9: at most one remote call (plan, render or validate) is outstanding.
C9_OneOutstandingCall ==
    Cardinality({o \in Slots : ops[o].pc \in RemotePcs}) <= 1

\* C10: appState changes only along IDLE->LOADING, LOADING->AWAITING_USER_INPUT,
\* LOADING->ERROR, LOADING->IDLE, AWAITING_USER_INPUT->LOADING,
\* AWAITING_USER_INPUT->RESULTS and any->IDLE.
C10_Edges ==
    {<<IDLE, LOADING>>, <<LOADING, AWAITING_USER_INPUT>>, <<LOADING, ERROR>>,
     <<LOADING, IDLE>>, <<AWAITING_USER_INPUT, LOADING>>,
     <<AWAITING_USER_INPUT, RESULTS>>}
    \cup {<<s, IDLE>> : s \in AppStateEnum}

C10_OnlyTheseEdges ==
    [][appState' # appState => <<appState, appState'>> \in C10_Edges]_vars

\* C11: immediately after handleReset, appState = IDLE, acceptedSteps is empty,
\* proposedStep, originalImage, currentCanvas, proposedStepInstructions,
\* nextStepInstructions and error are null, currentStepNumber = 1,
\* validationAttempts = 0 and validationScore is null.
C11_ResetPostState ==
    last = "reset"
    => /\ appState = IDLE
       /\ acceptedSteps = <<>>
       /\ proposedStep = None
       /\ originalImage = None
       /\ currentCanvas = None
       /\ proposedStepInstructions = None
       /\ nextStepInstructions = None
       /\ error = None
       /\ currentStepNumber = 1
       /\ validationAttempts = 0
       /\ validationScore = None

\* a reset has just run while another operation is still in flight
C11_Witness ==
    /\ last = "reset"
    /\ \E o \in Slots : ~IsFree(o)

\* C12: currentCanvas is the image of the last element of acceptedSteps and is
\* null exactly when acceptedSteps is empty; it changes only when a step is
\* accepted or when upload or reset empties acceptedSteps, so a proposed step
\* that is not accepted never becomes currentCanvas.
C12_CanvasIsLastAccepted ==
    /\ [](IF acceptedSteps = <<>> THEN currentCanvas = None
          ELSE /\ currentCanvas # None
               /\ DataUrl(Val(currentCanvas)) =
                      acceptedSteps[Len(acceptedSteps)].imageUrl)
    /\ [][currentCanvas' # currentCanvas
          => \/ last' = "accept" /\ acceptedSteps' = Append(acceptedSteps, Val(proposedStep))
             \/ last' \in {"upload", "reset"} /\ acceptedSteps' = <<>>]_vars

\* step 1 is accepted and a different image is proposed for step 2
C12_Witness ==
    /\ Len(acceptedSteps) = 1
    /\ appState = AWAITING_USER_INPUT
    /\ proposedStep # None
    /\ currentCanvas # None
    /\ Val(proposedStep).imageUrl # DataUrl(Val(currentCanvas))
    /\ Val(proposedStep).imageUrl # acceptedSteps[1].imageUrl

\* C13: in AWAITING_USER_INPUT with a proposed step P, accept appends exactly P
\* to acceptedSteps, sets currentCanvas to P's image, increments
\* currentStepNumber by exactly 1 and clears proposedStep.
C13_AcceptEffect ==
    [][ (appState = AWAITING_USER_INPUT /\ proposedStep # None /\ HandleAcceptStep)
        => /\ acceptedSteps' = Append(acceptedSteps, Val(proposedStep))
           /\ currentCanvas' # None
           /\ DataUrl(Val(currentCanvas')) = Val(proposedStep).imageUrl
           /\ currentStepNumber' = currentStepNumber + 1
           /\ proposedStep' = None ]_vars

\* C14: accepting the proposed step k < totalSteps when instructions for step
\* k + 1 are available re-enters LOADING; whenever accept re-enters LOADING the
\* validation loop runs for step k + 1 (never for step k or an earlier step)
\* with the image of step k as previous canvas; accepting step k = totalSteps
\* enters RESULTS.
C14_AcceptContinuation ==
    [][ (appState = AWAITING_USER_INPUT /\ proposedStep # None /\ HandleAcceptStep)
        => LET k == Val(proposedStep).step
               started == ops'[NewSlot]
           IN  /\ ( /\ k < totalSteps
                    /\ nextStepInstructions # None
                    /\ Val(nextStepInstructions).stepNumber = k + 1 )
                  => appState' = LOADING
               /\ appState' = LOADING
                  => /\ started.pc \in {"generatedImage", "finalImage"}
                     /\ Val(started.currentInstructions).stepNumber = k + 1
                     /\ started.canvas # None
                     /\ DataUrl(Val(started.canvas)) = Val(proposedStep).imageUrl
               /\ k = totalSteps => appState' = RESULTS ]_vars

\* C15: in AWAITING_USER_INPUT with a proposal for step k, retry(feedback)
\* re-enters LOADING, clears the proposed step and runs generateValidatedStep
\* with instructions of step k, with currentCanvas (null for step 1) as previous
\* canvas and with the given feedback; acceptedSteps, currentCanvas and
\* currentStepNumber are changed neither by the retry nor by its completion.
C15_RetrySameStep ==
    [][ /\ \A fb \in UserFeedbacks :
              (appState = AWAITING_USER_INPUT /\ proposedStep # None
                  /\ HandleRetryStep(fb))
              => LET k == Val(proposedStep).step
                     started == ops'[NewSlot]
                 IN  /\ appState' = LOADING
                     /\ proposedStep' = None
                     /\ started.pc \in {"generatedImage", "finalImage"}
                     /\ Val(started.currentInstructions).stepNumber = k
                     /\ started.canvas = currentCanvas
                     /\ k = 1 => started.canvas = None
                     /\ started.userFeedback = Some(fb)
                     /\ UNCHANGED <<acceptedSteps, currentCanvas, currentStepNumber>>
        /\ last' \in {"validation", "finalValidation", "remoteCallFails"}
              => UNCHANGED <<acceptedSteps, currentCanvas, currentStepNumber>> ]_vars

\* C16: when the normalizer or a remote call of an operation the user has not
\* cancelled fails, whatever the error message, the application ends in ERROR
\* with an error message; LOADING is left for IDLE only by a cancel click.
C16_FailureEndsInError ==
    [][ /\ \A o \in Slots, m \in ErrorMessages :
              (~ops[o].aborted /\ (UploadCallFails(o, m) \/ RemoteCallFails(o, m)))
              => appState' = ERROR /\ error' # None
        /\ (appState = LOADING /\ appState' = IDLE) => last' = "cancel" ]_vars

UserEvents == {"upload", "accept", "retry", "areaRetry", "cancel", "reset"}

\* C17: while appState is ERROR the only user action is reset, which leads to
\* IDLE with the session fields cleared, and no step leads from ERROR to
\* LOADING, AWAITING_USER_INPUT or RESULTS with the accepted steps kept.
C17_ErrorLeftOnlyByReset ==
    [][ appState = ERROR
        => /\ last' \in UserEvents => last' = "reset"
           /\ last' = "reset"
              => /\ appState' = IDLE
                 /\ acceptedSteps' = <<>>
                 /\ proposedStep' = None
                 /\ currentCanvas' = None
                 /\ error' = None
           /\ appState' \in {LOADING, AWAITING_USER_INPUT, RESULTS}
              => acceptedSteps' # acceptedSteps ]_vars

\* C18: generateValidatedStep treats attempt k <= maxRetries as passing exactly
\* when its score is >= 70: it returns at that attempt when the score is in
\* 70..100, and renders again after a score below 70 while attempts remain,
\* whatever the approved flag of the validation says.
C18_PassesFromSeventy ==
    \A o \in Slots :
        IsDirect(o) =>
            \A k \in 1..Validated(o) :
                k <= ops[o].maxRetries
                => /\ ValidationOf(o, k).score >= ApprovalScore
                      => /\ ops[o].pc = "returned"
                         /\ Len(ops[o].log) = 2 * k
                         /\ Val(ops[o].result).attempts = k
                   /\ (ValidationOf(o, k).score < ApprovalScore
                          /\ k < ops[o].maxRetries)
                      => ops[o].renders >= k + 1

\* C19: resizeImage with maxWidth = maxHeight = 1024 on an image of w x h
\* pixels: if w > 1024 or h > 1024 the larger output dimension is exactly 1024
\* and the other one is the smaller input dimension times 1024 / larger,
\* rounded to the nearest integer (halves up), so both are <= 1024 and neither
\* exceeds its input; otherwise the output dimensions are (w, h).
C19_ResizeBound ==
    resize.pc = "resolved"
    => LET w == resize.naturalWidth
           h == resize.naturalHeight
           large == IF w >= h THEN w ELSE h
           small == IF w >= h THEN h ELSE w
           outLarge == IF w >= h THEN resize.width ELSE resize.height
           outSmall == IF w >= h THEN resize.height ELSE resize.width
       IN  IF w > 1024 \/ h > 1024
           THEN /\ outLarge = 1024
                /\ 2 * large * outSmall - large <= 2 * small * 1024
                /\ 2 * small * 1024 < 2 * large * outSmall + large
                /\ resize.width <= 1024 /\ resize.height <= 1024
                /\ resize.width <= w /\ resize.height <= h
           ELSE resize.width = w /\ resize.height = h

\* a 2048 x 3 image becomes 1024 x 2 (1.5 rounds up) and a 1025 x 2049 one
\* becomes 512 x 1024
C19_Witness ==
    /\ resize.pc = "resolved"
    /\ \/ /\ resize.naturalWidth = 2048 /\ resize.naturalHeight = 3
          /\ resize.width = 1024 /\ resize.height = 2
       \/ /\ resize.naturalWidth = 1025 /\ resize.naturalHeight = 2049
          /\ resize.width = 512 /\ resize.height = 1024

\* str is h / 100 written with one decimal place: the nearest tenth, the upper
\* one when two are as near
IsOneDecimalOf(str, h) ==
    /\ Len(str) = 3
    /\ str[2] = "."
    /\ str[1] >= 0
    /\ str[3] \in 0..9
    /\ 100 * str[1] + 10 * str[3] - 5 <= h
    /\ h < 100 * str[1] + 10 * str[3] + 5

\* The text names x, y, width and height of the region with one decimal place
\* and carries the user's feedback
NamesRegion(t, a, fb) ==
    /\ Len(t) >= 16
    /\ t[3] = "Area coordinates: x=" /\ IsOneDecimalOf(t[4], a.x)
    /\ t[5] = "%, y=" /\ IsOneDecimalOf(t[6], a.y)
    /\ t[7] = "%, width=" /\ IsOneDecimalOf(t[8], a.width)
    /\ t[9] = "%, height=" /\ IsOneDecimalOf(t[10], a.height)
    /\ t[15] = "USER FEEDBACK FOR THIS AREA: " /\ t[16] = fb

sessionFields ==
    <<appState, error, acceptedSteps, proposedStep, currentStepNumber,
      originalImage, currentCanvas, proposedStepInstructions,
      nextStepInstructions, validationAttempts, validationScore>>

\* C22: after a reset made while an earlier operation is awaiting a call, the
\* session stays IDLE with acceptedSteps empty, proposedStep null and error
\* null until the next upload: the call of the earlier operation that settles
\* after the reset, successfully or not, changes no session field.
C22_ResetOutlivesOperations ==
    [][ (last = "reset" /\ last' \notin UserEvents)
        => /\ UNCHANGED sessionFields
           /\ appState' = IDLE
           /\ acceptedSteps' = <<>>
           /\ proposedStep' = None
           /\ error' = None ]_vars

\* The uploaded file a rendered image was drawn from, and the one a reference
\* image was resized from
DrawnFrom(imageUrl) == CanvasFromUrl(imageUrl).base64[2]
ResizedFrom(img) == img.base64[2]

\* C23: results are applied in issuance order, so the proposed step shown in
\* AWAITING_USER_INPUT was generated from the current originalImage, never from
\* the image of an earlier, cancelled tutorial.
C23_ProposalFromCurrentImage ==
    (appState = AWAITING_USER_INPUT /\ proposedStep # None)
    => /\ originalImage # None
       /\ DrawnFrom(Val(proposedStep).imageUrl) = ResizedFrom(Val(originalImage))

\* C24: when a render or validate call of generateValidatedStep fails, in an
\* operation the user has not cancelled, the invocation ends at once (it issues
\* no further call and regenerates nothing) and the same error reaches
\* processStep, which enters ERROR with that error's message.
C24_FailureAbortsLoop ==
    [][ \A o \in Slots, m \in ErrorMessages :
           (~ops[o].aborted /\ RemoteCallFails(o, m))
           => /\ ops'[o] = FreeSlot
              /\ appState' = ERROR
              /\ error' = Some(<<"Failed to generate step",
                                 Val(ops[o].currentInstructions).stepNumber, m>>) ]_vars

\* C25: when no attempt is approved, the validation of the best attempt has no
\* instructionsForNextStep and the step is not the last one, generateValidatedStep
\* validates the best attempt's image exactly once more, renders no new image,
\* and returns that image with the validation of the re-run.
C25_RevalidatesWinningImage ==
    \A o \in Slots :
        ( /\ IsDirect(o) /\ ops[o].pc = "returned" /\ NoneApproved(o)
          /\ Val(ops[o].currentInstructions).stepNumber
                 < Val(ops[o].currentInstructions).totalSteps
          /\ ValidationOf(o, BestAttempt(o)).instructionsForNextStep = None )
        => LET b == BestAttempt(o)
               R == ops[o].maxRetries
               res == Val(ops[o].result)
           IN  /\ ops[o].renders = R
               /\ ops[o].validates = R + 1
               /\ ops[o].log[Len(ops[o].log)].call = "validate"
               /\ ops[o].log[Len(ops[o].log)].image = RenderOf(o, b).image
               /\ res.image = RenderOf(o, b).image
               /\ res.validation = Val(ops[o].log[Len(ops[o].log)].validation)

\* C26: generateImageFromInstructions returns the first inline-image part of
\* the response; when the response has no inline-image part it throws, no image
\* is returned and the application enters ERROR with that failure's message.
C26_RenderProtocol ==
    [][ \A o \in Slots :
           ops[o].pc \in {"generatedImage", "finalImage"}
           => \A parts \in RenderResponses(ops[o]) :
                 RenderResponds(o, parts)
                 => IF \A i \in 1..Len(parts) : parts[i].inlineData = None
                    THEN /\ ops'[o] = FreeSlot
                         /\ appState' = ERROR
                         /\ error' = Some(<<"Failed to generate step",
                                            Val(ops[o].currentInstructions).stepNumber,
                                            NoImageMessage>>)
                         /\ UNCHANGED <<proposedStep, acceptedSteps, currentCanvas>>
                    ELSE \E i \in 1..Len(parts) :
                            /\ parts[i].inlineData # None
                            /\ \A j \in 1..(i - 1) : parts[j].inlineData = None
                            /\ ops'[o].pc \in {"validation", "finalValidation"}
                            /\ ops'[o].generatedImage =
                                   Some(ImageObject(Val(parts[i].inlineData).data,
                                                    Val(parts[i].inlineData).mimeType))
                            /\ UNCHANGED appVars ]_vars

\* a response without an image has put the application in ERROR while a step
\* had already been accepted
C26_Witness ==
    /\ last = "renderResponse"
    /\ appState = ERROR
    /\ error = Some(<<"Failed to generate step", 2, NoImageMessage>>)
    /\ Len(acceptedSteps) = 1

\* C27: generateFirstStepInstructions and expertValidateImage fail with an
\* error when the response is not parseable JSON, and never return an object
\* that lacks a required field of its schema.
C27_StructuredProtocol ==
    \A o \in Slots :
        LET r == ops[o]
            required == IF r.kind = "plan" THEN PlanRequired ELSE ValidationRequired
        IN  /\ (r.kind \in {"plan", "validate"} /\ r.pc = "returned")
               => Range(required) \subseteq DOMAIN Val(r.result)
            /\ (r.kind \in {"plan", "validate"} /\ r.pc \in {"returned", "threw"}
                   /\ (r.log[1] = None \/ JsonParse(Trim(Val(r.log[1]))) = None))
               => r.pc = "threw"

\* C28: when userFeedback is non-empty after trimming, attempt 1 of
\* generateValidatedStep renders and validates with the original
\* drawingInstructions followed by the feedback text unchanged; when it is
\* absent, empty or only white space, with the original drawingInstructions;
\* stepNumber, totalSteps, targetCompleteness, whatToDraw and avoidance are the
\* original ones in every call of every attempt.  (Every call is the last
\* entry of the log in the state that follows it.)
C28_UserFeedbackAppended ==
    \A o \in Slots :
        IsDirect(o) =>
            \A i \in {Len(ops[o].log)} \ {0} :
                LET used == ops[o].log[i].instructions
                    cur == Val(ops[o].currentInstructions)
                    fb == ops[o].userFeedback
                    text == used.drawingInstructions
                IN  /\ used.stepNumber = cur.stepNumber
                    /\ used.totalSteps = cur.totalSteps
                    /\ used.targetCompleteness = cur.targetCompleteness
                    /\ used.whatToDraw = cur.whatToDraw
                    /\ used.avoidance = cur.avoidance
                    /\ ops[o].log[i].attempt = 1 =>
                          IF fb # None /\ \E j \in 1..Len(Val(fb)) : Val(fb)[j] # " "
                          THEN /\ Len(text) = Len(cur.drawingInstructions) + 1
                               /\ SubSeq(text, 1, Len(text) - 1) = cur.drawingInstructions
                               /\ text[Len(text)] = <<"USER FEEDBACK", Val(fb)>>
                          ELSE text = cur.drawingInstructions

\* a feedback with white space around it was appended as it is, and the
\* second attempt has been rendered
C28_Witness ==
    \E o \in Slots :
        /\ IsDirect(o) /\ Rendered(o) >= 2
        /\ ops[o].userFeedback = Some(<<" ", "bolder", " ">>)
        /\ RenderOf(o, 1).instructions.drawingInstructions =
               <<<<"HOW", <<1>>>>, <<"USER FEEDBACK", <<" ", "bolder", " ">>>>>>
        /\ ValidationOf(o, 1).approved = FALSE

\* C29: every render and validate call the application has outstanding runs
\* with no previous canvas exactly when its instructions are those of step 1,
\* and otherwise with the image of the last accepted step.
C29_CanvasAbsentOnlyForStepOne ==
    \A o \in Slots :
        (ops[o].pc \in GvsPcs /\ ~IsDirect(o) /\ ~ops[o].aborted)
        => /\ (ops[o].canvas = None) <=> (Val(ops[o].instructions).stepNumber = 1)
           /\ ops[o].canvas # None
              => /\ acceptedSteps # <<>>
                 /\ DataUrl(Val(ops[o].canvas)) =
                        acceptedSteps[Len(acceptedSteps)].imageUrl

\* C30: in every reachable state proposedStep is non-null if and only if
\* appState is AWAITING_USER_INPUT.
C30_ProposalOnlyWhileAwaiting ==
    (proposedStep # None) <=> (appState = AWAITING_USER_INPUT)

\* C31: in every reachable state currentStepNumber = Len(acceptedSteps) + 1,
\* and in AWAITING_USER_INPUT the proposed step's number is currentStepNumber.
C31_StepCounter ==
    /\ currentStepNumber = Len(acceptedSteps) + 1
    /\ (appState = AWAITING_USER_INPUT /\ proposedStep # None)
       => Val(proposedStep).step = currentStepNumber

\* C32: the remote calls of one generateValidatedStep alternate render,
\* validate, render, validate, ...; each validate call receives the image the
\* preceding render returned and the instructions that render used; and the
\* image of the returned result is the one its validation scored.
C32_CallsAlternate ==
    \A o \in Slots :
        IsDirect(o) =>
            LET log == ops[o].log
            IN  /\ \A i \in 1..Len(log) :
                      IF i % 2 = 1
                      THEN log[i].call = "render"
                      ELSE /\ log[i].call = "validate"
                           /\ log[i].image = log[i - 1].image
                           /\ log[i].instructions = log[i - 1].instructions
                /\ ops[o].pc \in {"generatedImage", "finalImage"}
                   => Len(log) % 2 = 0 /\ ops[o].renders = ops[o].validates + 1
                /\ ops[o].pc \in {"validation", "finalValidation"}
                   => Len(log) % 2 = 1 /\ ops[o].renders = ops[o].validates
                /\ ops[o].pc = "returned"
                   => /\ Len(log) > 0 /\ Len(log) % 2 = 0
                      /\ ops[o].renders = ops[o].validates
                      /\ Val(ops[o].result).image = log[Len(log)].image
                      /\ Some(Val(ops[o].result).validation) = log[Len(log)].validation
                      /\ Val(ops[o].result).finalScore =
                             Val(ops[o].result).validation.score

\* three rejections, then the fourth render and its validation are returned
C32_Witness ==
    \E o \in Slots :
        /\ IsDirect(o) /\ ops[o].pc = "returned" /\ ops[o].maxRetries = 3
        /\ Len(ops[o].log) = 8
        /\ Val(ops[o].result).image = ops[o].log[7].image
        /\ ops[o].log[7].image # ops[o].log[5].image
        /\ ops[o].log[8].instructions = ops[o].log[7].instructions

\* C33: the instructions stored for the proposed step are the ones the expert
\* gave for that step, with no USER FEEDBACK or EXPERT CORRECTION text; so
\* every generateValidatedStep of the application starts from them, and the
\* text of its current attempt is that original text, then the feedback of
\* this retry alone (when it is not blank), then one correction per failed
\* attempt of this invocation.
C33_NoLeakAcrossRetries ==
    /\ proposedStepInstructions # None
       => Val(proposedStepInstructions) =
              ExpertInstruction(Val(proposedStepInstructions).stepNumber)
    /\ \A o \in Slots :
          (ops[o].pc \in GvsPcs /\ ~IsDirect(o))
          => LET cur == Val(ops[o].currentInstructions)
                 text == Val(ops[o].instructions).drawingInstructions
                 fb == ops[o].userFeedback
                 given == fb # None /\ \E j \in 1..Len(Val(fb)) : Val(fb)[j] # " "
                 failed == (IF ops[o].attempt <= ops[o].maxRetries
                            THEN ops[o].attempt ELSE ops[o].maxRetries) - 1
             IN  /\ cur = ExpertInstruction(cur.stepNumber)
                 /\ Len(text) = 1 + (IF given THEN 1 ELSE 0) + failed
                 /\ text[1] = cur.drawingInstructions[1]
                 /\ given => text[2] = <<"USER FEEDBACK", Val(fb)>>
                 /\ \A i \in (Len(text) - failed + 1)..Len(text) :
                       text[i][1] = "EXPERT CORRECTION"

\* a retry with feedback, after earlier deviations, is at its second attempt:
\* the text is the original, this feedback and one correction
C33_Witness ==
    /\ budget = 0
    /\ \E o \in Slots :
          /\ ops[o].pc = "generatedImage" /\ ops[o].kind = "step"
          /\ ops[o].attempt = 2
          /\ ops[o].userFeedback = Some(<<"thicker", " ", "lines">>)
          /\ Val(ops[o].instructions).drawingInstructions =
                 <<<<"HOW", <<1>>>>, <<"USER FEEDBACK", <<"thicker", " ", "lines">>>>,
                   <<"EXPERT CORRECTION", <<"fix A">>>>>>

\* C34: when the first step of a newly uploaded tutorial is proposed (the
\* generateValidatedStep started by an upload resolves into
\* AWAITING_USER_INPUT), acceptedSteps is empty, currentCanvas is null,
\* currentStepNumber is 1, error is null and the proposed step has step = 1.
C34_NewTutorialIsFresh ==
    [][ \A o \in Slots :
           ( /\ ops[o].kind = "upload" /\ ~ops[o].aborted
             /\ ops[o].pc \in {"validation", "finalValidation"}
             /\ ops'[o] = FreeSlot
             /\ appState' = AWAITING_USER_INPUT )
           => /\ acceptedSteps' = <<>>
              /\ currentCanvas' = None
              /\ currentStepNumber' = 1
              /\ error' = None
              /\ proposedStep' # None
              /\ Val(proposedStep').step = 1 ]_vars

\* C35: generateCompleteDrawingTutorial calls generateValidatedStep once per
\* step, in step order, with the previous step's resulting image as previous
\* canvas (null for step 1); it calls onStepComplete (when given) once per
\* step in step order; when a validation before the last step has no
\* instructionsForNextStep the next call runs with the placeholder numbered
\* one above the step just completed; and when all calls succeed it returns
\* exactly totalSteps completed steps.
C35_BatchDriver ==
    \A o \in Slots :
        ops[o].kind = "batch" =>
            LET b == ops[o]
                done == b.completedSteps
            IN  /\ Len(b.calls) \in {Len(done), Len(done) + 1}
                /\ Len(b.calls) <= b.totalSteps
                /\ \A j \in 1..Len(b.calls) :
                      /\ b.calls[j].instructions.stepNumber = j
                      /\ b.calls[j].previousCanvas =
                             IF j = 1 THEN None ELSE Some(done[j - 1].image)
                      /\ (j > 1 /\ b.calls[j].instructions.whatToDraw =
                                       Placeholder(0, 1).whatToDraw)
                         => b.calls[j].instructions.stepNumber =
                                done[j - 1].stepNumber + 1
                /\ \A j \in 1..Len(done) :
                      /\ done[j].stepNumber = j
                      /\ done[j].instructions = b.calls[j].instructions
                /\ b.callbacks =
                       IF b.onStepComplete
                       THEN [j \in 1..Len(done) |->
                                [stepNumber |-> j, image |-> done[j].image,
                                 score |-> done[j].score]]
                       ELSE <<>>
                /\ b.pc = "returned"
                   => /\ Val(b.result).steps = done
                      /\ Len(done) = b.totalSteps
                      /\ Len(b.calls) = b.totalSteps

\* a tutorial of three steps has been returned; the validation of step 1 gave
\* no instructions and step 2 ran with the placeholder
C35_Witness ==
    \E o \in Slots :
        /\ ops[o].kind = "batch" /\ ops[o].pc = "returned"
        /\ ops[o].totalSteps = 3 /\ ops[o].onStepComplete
        /\ Len(Val(ops[o].result).steps) = 3
        /\ Val(ops[o].result).steps[2].instructions = Placeholder(0, 3)
        /\ Val(ops[o].result).steps[3].instructions = BatchInstruction(3, 3)
        /\ Len(ops[o].callbacks) = 3

\* C36: whenever the application is LOADING with an operation in flight that
\* was not cancelled, the stored abortController is the controller of that
\* operation; and it is null whenever no operation is in flight.
C36_AbortControllerBookkeeping ==
    /\ \A o \in Slots :
          (appState = LOADING /\ ~IsFree(o) /\ ~ops[o].aborted)
          => abortController = Some(o)
    /\ (\A o \in Slots : IsFree(o)) => abortController = None

====
